---- MODULE Spec2Model ----
(***************************************************************************)
(* Scoring engine of the fiber-expansion dashboard (backend/app/scoring.py) *)
(*                                                                         *)
(* Number representation (Python floats and ints become integers):         *)
(*   distances   hundredths of a mile          (0.25 mi  -> 25)            *)
(*   weights     thousandths                   (0.25     -> 250)           *)
(*   strength    tenths                        (4.5      -> 45)            *)
(*   weighted points, running total            thousandths of a point      *)
(*   rounded points, total_score               hundredths  (75.00 -> 7500) *)
(*   datetimes   clock ticks, TicksPerDay ticks to a day                   *)
(* An Optional value is None (the empty tuple) or Some(v) (a 1-tuple).     *)
(***************************************************************************)
EXTENDS Integers, Sequences, FiniteSets, TLC

VARIABLES call, default_weights, custom_weights, properties, costs, links, wall_clock

\* the database: properties, their cost records and contact links, and
\* the reading of the clock
store == <<properties, costs, links, wall_clock>>

vars == <<call, default_weights, custom_weights, properties, costs, links, wall_clock>>

(***************************** bounds of the model *************************)
MaxUnits == 450
MaxLots == 1000
MaxDistance == 300
MaxCompetitors == 5
MaxIncomeK == 24
MaxDensityK == 20
MaxAnchors == 2
MaxTierScore == 10100
MaxCustomKeys == 2
TicksPerDay == 2
MaxStrength == 55
MaxDays == 732
MaxClock == 3
MaxBuildCost == 100000
MaxCostUnits == 100
MaxArpu == 60
MaxLease == 20000
MaxNow == 1

(***************************** Python value helpers ************************)
None == <<>>
Some(v) == <<v>>

\* Python truthiness of an Optional number: None and 0 are falsy
Falsy(x) == x = None \/ x[1] = 0

\* `x or 0`
OrZero(x) == IF Falsy(x) THEN 0 ELSE x[1]

\* float('inf'), above every distance of the model
Inf == 1000000000

\* `x or float('inf')`
OrInf(x) == IF Falsy(x) THEN Inf ELSE x[1]

Min(a, b) == IF b < a THEN b ELSE a

\* round(x, 2): x in thousandths, result in hundredths, ties to even
Round2(x) ==
    LET q == x \div 10
        r == x % 10
    IN  IF r < 5 THEN q
        ELSE IF r > 5 THEN q + 1
        ELSE IF q % 2 = 0 THEN q ELSE q + 1

\* dict.get(key, default)
Get(d, key, default) == IF key \in DOMAIN d THEN d[key] ELSE default

(***************************** scoring.py **********************************)
MDU == "MDU"
SUBDIVISION == "Subdivision"
PropertyType == {MDU, SUBDIVISION}

DEFAULT_WEIGHTS ==
    [t \in PropertyType |->
        IF t = MDU
        THEN [scale |-> 250, fiber |-> 200, competitors |-> 150, income |-> 100,
              density |-> 100, erate |-> 100, timing |-> 50, relationship |-> 50]
        ELSE [scale |-> 250, fiber |-> 150, competitors |-> 150, income |-> 150,
              density |-> 100, erate |-> 100, timing |-> 50, hoa_readiness |-> 50]]

MIN_UNKNOWN_SCORE == 35

\* mutant: strict comparisons at the thresholds
calculate_scale_points_mdu_strict(units) ==
    IF Falsy(units) THEN MIN_UNKNOWN_SCORE
    ELSE IF units[1] > 400 THEN 100
    ELSE IF units[1] > 250 THEN 85
    ELSE IF units[1] > 150 THEN 70
    ELSE IF units[1] > 75 THEN 55
    ELSE MIN_UNKNOWN_SCORE

calculate_scale_points_mdu(units) ==
    IF Falsy(units) THEN MIN_UNKNOWN_SCORE
    ELSE IF units[1] >= 400 THEN 100
    ELSE IF units[1] >= 250 THEN 85
    ELSE IF units[1] >= 150 THEN 70
    ELSE IF units[1] >= 75 THEN 55
    ELSE MIN_UNKNOWN_SCORE

calculate_scale_points_sfu(lots) ==
    IF Falsy(lots) THEN MIN_UNKNOWN_SCORE
    ELSE IF lots[1] >= 1000 THEN 100
    ELSE IF lots[1] >= 600 THEN 85
    ELSE IF lots[1] >= 300 THEN 70
    ELSE IF lots[1] >= 150 THEN 55
    ELSE MIN_UNKNOWN_SCORE

calculate_fiber_proximity_points(distance_miles) ==
    IF distance_miles = None THEN 40
    ELSE IF distance_miles[1] <= 25 THEN 100
    ELSE IF distance_miles[1] <= 50 THEN 80
    ELSE IF distance_miles[1] <= 100 THEN 60
    ELSE IF distance_miles[1] <= 200 THEN 40
    ELSE 20

\* mutant: a count of 0 taken for unknown
calculate_competitor_points_falsy(count) ==
    IF Falsy(count) THEN 50
    ELSE IF count[1] = 1 THEN 80
    ELSE IF count[1] = 2 THEN 60
    ELSE 30

calculate_competitor_points(count) ==
    IF count = None THEN 50
    ELSE IF count[1] = 0 THEN 100
    ELSE IF count[1] = 1 THEN 80
    ELSE IF count[1] = 2 THEN 60
    ELSE 30

calculate_income_points(median_income) ==
    IF Falsy(median_income) THEN 50
    ELSE IF median_income[1] >= 110000 THEN 100
    ELSE IF median_income[1] >= 85000 THEN 80
    ELSE IF median_income[1] >= 65000 THEN 60
    ELSE IF median_income[1] >= 45000 THEN 40
    ELSE 25

calculate_density_points(density) ==
    IF Falsy(density) THEN 50
    ELSE IF density[1] >= 3000 THEN 100
    ELSE IF density[1] >= 2000 THEN 80
    ELSE IF density[1] >= 1200 THEN 60
    ELSE IF density[1] >= 600 THEN 40
    ELSE 25

\* mutant: the libraries left out of the sum
calculate_erate_points_schools_only(schools, libraries) ==
    LET total == OrZero(schools)
    IN  IF total >= 3 THEN 100
        ELSE IF total = 2 THEN 80
        ELSE IF total = 1 THEN 60
        ELSE 30

calculate_erate_points(schools, libraries) ==
    LET total == OrZero(schools) + OrZero(libraries)
    IN  IF total >= 3 THEN 100
        ELSE IF total = 2 THEN 80
        ELSE IF total = 1 THEN 60
        ELSE 30

\* mutant: the days truncated towards zero, as int(seconds / 86400) would
DaysAway_truncated(break_ground_date, now) ==
    LET diff == break_ground_date[1] - now
    IN  IF diff >= 0 THEN diff \div TicksPerDay ELSE -((-diff) \div TicksPerDay)

\* (break_ground_date - datetime.now()).days : whole days, rounded down
DaysAway(break_ground_date, now) == (break_ground_date[1] - now) \div TicksPerDay

\* `if not break_ground_date`: a datetime is always truthy, only None is not
calculate_timing_points(break_ground_date, now) ==
    IF break_ground_date = None THEN 40
    ELSE LET days_away == DaysAway(break_ground_date, now)
         IN  IF days_away < 0 THEN 50
             ELSE IF days_away <= 180 THEN 100
             ELSE IF days_away <= 365 THEN 70
             ELSE IF days_away <= 730 THEN 40
             ELSE 20

calculate_relationship_points(avg_strength) ==
    IF avg_strength >= 45 THEN 100
    ELSE IF avg_strength >= 35 THEN 80
    ELSE IF avg_strength >= 25 THEN 60
    ELSE IF avg_strength >= 15 THEN 40
    ELSE 20

\* mutant: a contact alone counted as an HOA
calculate_hoa_readiness_points_or(has_hoa, has_contact) ==
    IF has_hoa /\ has_contact THEN 100
    ELSE IF has_hoa \/ has_contact THEN 70
    ELSE 40

calculate_hoa_readiness_points(has_hoa, has_contact) ==
    IF has_hoa /\ has_contact THEN 100
    ELSE IF has_hoa THEN 70
    ELSE 40

\* mutant: tiers counted from 0
determine_tier_zero_based(score) ==
    IF score >= 7500 THEN 0
    ELSE IF score >= 5000 THEN 1
    ELSE 2

\* mutant: the tier 2 threshold tested first
determine_tier_misordered(score) ==
    IF score >= 5000 THEN 2
    ELSE IF score >= 7500 THEN 1
    ELSE 3

\* mutant: open lower bounds
determine_tier_strict(score) ==
    IF score > 7500 THEN 1
    ELSE IF score > 5000 THEN 2
    ELSE 3

determine_tier(score) ==
    IF score >= 7500 THEN 1
    ELSE IF score >= 5000 THEN 2
    ELSE 3

\* one line of the breakdown: "points" is round(points * weight, 2)
FactorLine(factor, raw_value, weight, weighted, unit) ==
    [factor |-> factor, raw_value |-> raw_value, weight |-> weight,
     points |-> Round2(weighted), unit |-> unit]

\* weights = DEFAULT_WEIGHTS.get(prop_type, DEFAULT_WEIGHTS[MDU]) when None
ActiveWeights(prop_type, weights) ==
    IF weights = None
    THEN Get(DEFAULT_WEIGHTS, prop_type, DEFAULT_WEIGHTS[MDU])
    ELSE weights[1]

scale_raw(prop) == IF prop.property_type = MDU THEN prop.units ELSE prop.lots

scale_points(prop) ==
    IF prop.property_type = MDU
    THEN calculate_scale_points_mdu(prop.units)
    ELSE calculate_scale_points_sfu(prop.lots)

scale_unit(prop) == IF prop.property_type = MDU THEN "units" ELSE "lots"

scale_weight(weights) == Get(weights, "scale", 250)

best_fiber_distance(prop) ==
    LET best == Min(OrInf(prop.fiber_distance_gvtc), OrInf(prop.fiber_distance_lease))
    IN  IF best = Inf THEN None ELSE Some(best)

\* mutant: the weight looked up under the breakdown identifier
fiber_weight_by_identifier(weights) == Get(weights, "fiber_proximity", 200)

fiber_weight(weights) == Get(weights, "fiber", 200)

competitor_weight(weights) == Get(weights, "competitors", 150)

income_weight(weights) == Get(weights, "income", 100)

density_weight(weights) == Get(weights, "density", 100)

erate_weight(weights) == Get(weights, "erate", 100)

timing_weight(weights) == Get(weights, "timing", 50)

\* mutant: the raw value in clock ticks instead of whole days
timing_raw_value_ticks(prop, now) ==
    IF prop.break_ground_date # None
    THEN Some(prop.break_ground_date[1] - now)
    ELSE None

\* the raw value of the timing line, from a second reading of the clock
timing_raw_value(prop, now) ==
    IF prop.break_ground_date # None
    THEN Some(DaysAway(prop.break_ground_date, now))
    ELSE None

\* mutant: the relationship line for every category
eighth_factor_relationship(prop, weights, relationship_strength, has_hoa, has_hoa_contact) ==
    LET rel_weight == Get(weights, "relationship", 50)
        rel_weighted == calculate_relationship_points(relationship_strength) * rel_weight
    IN  [weighted |-> rel_weighted,
         line |-> FactorLine("relationship", Some(relationship_strength),
                             rel_weight, rel_weighted, "strength")]

\* weighted points and breakdown line of the category's eighth factor
eighth_factor(prop, weights, relationship_strength, has_hoa, has_hoa_contact) ==
    IF prop.property_type = MDU
    THEN LET rel_weight == Get(weights, "relationship", 50)
             rel_weighted == calculate_relationship_points(relationship_strength) * rel_weight
         IN  [weighted |-> rel_weighted,
              line |-> FactorLine("relationship", Some(relationship_strength),
                                  rel_weight, rel_weighted, "strength")]
    ELSE LET hoa_weight == Get(weights, "hoa_readiness", 50)
             hoa_weighted == calculate_hoa_readiness_points(has_hoa, has_hoa_contact) * hoa_weight
         IN  [weighted |-> hoa_weighted,
              line |-> FactorLine("hoa_readiness",
                                  [has_hoa |-> has_hoa, has_contact |-> has_hoa_contact],
                                  hoa_weight, hoa_weighted, "readiness")]

\* mutant: no cap at 100
final_score_uncapped(total_weighted_score) == Round2(total_weighted_score)

\* mutant: max in place of min
final_score_max(total_weighted_score) ==
    Round2(IF total_weighted_score > 100000 THEN total_weighted_score ELSE 100000)

\* final_score = round(min(total_weighted_score, 100), 2)
final_score(total_weighted_score) == Round2(Min(total_weighted_score, 100000))

\* clock = <<t1, t2, t3>>: the three successive readings of datetime.now(), in
\* calculate_timing_points, for the timing raw value and for calculated_at
calculate_score(prop, weights_arg, relationship_strength, has_hoa, has_hoa_contact, clock) ==
    LET weights == ActiveWeights(prop.property_type, weights_arg)
        scale_weighted == scale_points(prop) * scale_weight(weights)
        fiber_weighted ==
            calculate_fiber_proximity_points(best_fiber_distance(prop)) * fiber_weight(weights)
        competitor_weighted ==
            calculate_competitor_points(prop.competitor_count) * competitor_weight(weights)
        income_weighted == calculate_income_points(prop.median_income) * income_weight(weights)
        density_weighted ==
            calculate_density_points(prop.population_density) * density_weight(weights)
        erate_weighted ==
            calculate_erate_points(prop.nearby_schools, prop.nearby_libraries)
                * erate_weight(weights)
        timing_weighted ==
            calculate_timing_points(prop.break_ground_date, clock[1]) * timing_weight(weights)
        eighth == eighth_factor(prop, weights, relationship_strength, has_hoa, has_hoa_contact)
        total_weighted_score ==
            scale_weighted + fiber_weighted + competitor_weighted + income_weighted
            + density_weighted + erate_weighted + timing_weighted + eighth.weighted
        score == final_score(total_weighted_score)
    IN  [total_score |-> score,
         tier |-> determine_tier(score),
         breakdown |-> <<
            FactorLine("scale", scale_raw(prop), scale_weight(weights),
                       scale_weighted, scale_unit(prop)),
            FactorLine("fiber_proximity", best_fiber_distance(prop), fiber_weight(weights),
                       fiber_weighted, "miles"),
            FactorLine("competitors", prop.competitor_count, competitor_weight(weights),
                       competitor_weighted, "count"),
            FactorLine("income", prop.median_income, income_weight(weights),
                       income_weighted, "dollars"),
            FactorLine("density", prop.population_density, density_weight(weights),
                       density_weighted, "per_sq_mi"),
            FactorLine("erate_anchors",
                       Some(OrZero(prop.nearby_schools) + OrZero(prop.nearby_libraries)),
                       erate_weight(weights), erate_weighted, "count"),
            FactorLine("timing", timing_raw_value(prop, clock[2]), timing_weight(weights),
                       timing_weighted, "days"),
            eighth.line >>,
         calculated_at |-> clock[3]]

(***************************** routers/costs.py *****************************)
\* Money is in whole dollars, a take rate in hundredths (0.20 is 20, 20 is
\* 2000), a normalised take rate in ten-thousandths, and a monthly revenue
\* or profit in ten-thousandths of a dollar.

\* int(a / b) for b > 0: the quotient truncated towards zero
Trunc(a, b) == IF a >= 0 THEN a \div b ELSE -((-a) \div b)

RECURSIVE GCD(_, _)
GCD(a, b) == IF b = 0 THEN a ELSE GCD(b, a % b)

\* the quotient n / d of two numbers, d > 0, n >= 0, in lowest terms
Quotient(n, d) == <<n \div GCD(n, d), d \div GCD(n, d)>>

\* mutant: the equipment cost left out of the total
total_capex_without_equipment(cost) ==
    OrZero(cost.build_cost) + OrZero(cost.lateral_cost) + OrZero(cost.make_ready_cost)
    + OrZero(cost.drop_cost)

total_capex(cost) ==
    OrZero(cost.build_cost) + OrZero(cost.lateral_cost) + OrZero(cost.make_ready_cost)
    + OrZero(cost.drop_cost) + OrZero(cost.equipment_cost)

\* mutant: the unit count of an MDU used for every category
unit_count_units(prop) == prop.units

unit_count(prop) == IF prop.property_type = MDU THEN prop.units ELSE prop.lots

\* mutant: a cost per unit of zero when there is no count to divide by
cost_per_unit_zero(capex, count) ==
    IF ~Falsy(count) /\ count[1] > 0 THEN Some(Quotient(capex, count[1])) ELSE Some(<<0, 1>>)

cost_per_unit(capex, count) ==
    IF ~Falsy(count) /\ count[1] > 0 THEN Some(Quotient(capex, count[1])) ELSE None

\* mutant: a take rate of exactly 1 also taken for a percentage
take_rate_from_one(estimated_take_rate) ==
    IF estimated_take_rate >= 100 THEN estimated_take_rate ELSE estimated_take_rate * 100

\* estimated_take_rate / 100 if estimated_take_rate > 1 else estimated_take_rate
take_rate(estimated_take_rate) ==
    IF estimated_take_rate > 100 THEN estimated_take_rate ELSE estimated_take_rate * 100

estimated_monthly_revenue(cost, count) ==
    IF ~Falsy(cost.estimated_take_rate) /\ ~Falsy(cost.arpu) /\ ~Falsy(count)
    THEN Some(count[1] * take_rate(cost.estimated_take_rate[1]) * cost.arpu[1])
    ELSE None

\* mutant: a payback of zero when there is no profit
payback_months_zero(cost, capex, revenue) ==
    IF ~Falsy(revenue) /\ revenue[1] > 0 /\ capex # 0
    THEN LET monthly_profit == revenue[1] - OrZero(cost.lease_monthly) * 10000
         IN  IF monthly_profit > 0
             THEN Some(Trunc(capex * 10000, monthly_profit))
             ELSE Some(0)
    ELSE None

payback_months(cost, capex, revenue) ==
    IF ~Falsy(revenue) /\ revenue[1] > 0 /\ capex # 0
    THEN LET monthly_profit == revenue[1] - OrZero(cost.lease_monthly) * 10000
         IN  IF monthly_profit > 0
             THEN Some(Trunc(capex * 10000, monthly_profit))
             ELSE None
    ELSE None

\* the cost record with its four derived fields written
calculate_derived_costs(cost, prop) ==
    LET capex == total_capex(cost)
        count == unit_count(prop)
        revenue == estimated_monthly_revenue(cost, count)
    IN  [build_cost |-> cost.build_cost,
         lateral_cost |-> cost.lateral_cost,
         make_ready_cost |-> cost.make_ready_cost,
         drop_cost |-> cost.drop_cost,
         equipment_cost |-> cost.equipment_cost,
         lease_monthly |-> cost.lease_monthly,
         estimated_take_rate |-> cost.estimated_take_rate,
         arpu |-> cost.arpu,
         total_capex |-> Some(capex),
         cost_per_unit |-> cost_per_unit(capex, count),
         estimated_monthly_revenue |-> revenue,
         payback_months |-> payback_months(cost, capex, revenue)]

(***************************** inputs of the model *************************)
\* inputs of the factor evaluators and of determine_tier
UnitInputs == {None} \cup {Some(u) : u \in -1..MaxUnits}
LotInputs == {None} \cup {Some(l) : l \in -1..MaxLots}
DistanceInputs == {None} \cup {Some(d) : d \in -1..MaxDistance}
IncomeInputs == {None} \cup {Some(k * 5000 + j) : k \in 0..MaxIncomeK, j \in -1..1}
DensityInputs == {None} \cup {Some(k * 200 + j) : k \in 0..MaxDensityK, j \in -1..1}
TierInputs == -100..MaxTierScore
CompetitorInputs == {None} \cup {Some(c) : c \in 0..MaxCompetitors}
AnchorInputs == {None} \cup {Some(n) : n \in 0..MaxAnchors}
DateInputs == {None} \cup {Some(t) : t \in (-2 * TicksPerDay)..((MaxDays + 1) * TicksPerDay - 1)}
ClockInputs == 0..TicksPerDay
StrengthInputs == 0..MaxStrength

\* properties scored with the default weight set: every attribute absent, at
\* its lowest and at its highest level, a distance and an income of 0
ScoreProps ==
    [property_type : PropertyType,
     units : {None, Some(MaxUnits)},
     lots : {None, Some(MaxLots)},
     fiber_distance_gvtc : {None, Some(0), Some(10), Some(MaxDistance)},
     fiber_distance_lease : {None, Some(0), Some(150)},
     competitor_count : {None, Some(0), Some(MaxCompetitors)},
     median_income : {None, Some(0), Some(35000), Some(MaxIncomeK * 5000)},
     population_density : {None, Some(300), Some(MaxDensityK * 200)},
     nearby_schools : {Some(0), Some(MaxAnchors)},
     nearby_libraries : {None, Some(1)},
     break_ground_date : {None, Some(60 * TicksPerDay + 1), Some(800 * TicksPerDay)}]

\* properties scored twice: break-ground dates in the past, at the day
\* thresholds of the timing table and between them
TimedProps ==
    [property_type : PropertyType,
     units : {Some(MaxUnits)},
     lots : {Some(MaxLots)},
     fiber_distance_gvtc : {Some(10)},
     fiber_distance_lease : {None},
     competitor_count : {Some(0)},
     median_income : {Some(35000)},
     population_density : {Some(300)},
     nearby_schools : {Some(MaxAnchors)},
     nearby_libraries : {Some(1)},
     break_ground_date : {None, Some(1), Some(60 * TicksPerDay + 1), Some(181 * TicksPerDay),
                          Some(366 * TicksPerDay), Some(731 * TicksPerDay)}]

\* the readings of the clock by one call: nondecreasing, none before start
ClockReadings(start) ==
    {clock \in (start..MaxClock) \X (start..MaxClock) \X (start..MaxClock) :
        clock[1] <= clock[2] /\ clock[2] <= clock[3]}

\* the cost fields a cost upsert sets; the lease values include the revenue
\* of MaxCostUnits at a take rate of 1, and the take rates 0, 0.20, 1, 20,
\* 100 and 150
CostInputs ==
    [build_cost : {None, Some(0), Some(MaxBuildCost)},
     lateral_cost : {None, Some(5000)},
     make_ready_cost : {None, Some(2500)},
     drop_cost : {Some(0), Some(300)},
     equipment_cost : {None, Some(1200)},
     lease_monthly : {None, Some(0), Some(MaxCostUnits * MaxArpu), Some(MaxLease)},
     estimated_take_rate : {None, Some(0), Some(20), Some(100), Some(2000), Some(10000),
                            Some(15000)},
     arpu : {None, Some(0), Some(MaxArpu)}]

\* the property columns calculate_derived_costs reads
CostProps ==
    [property_type : PropertyType,
     units : {None, Some(0), Some(-5), Some(MaxCostUnits)},
     lots : {None, Some(40)}]

\* the MDUs of the end-to-end scenarios of tests/test_scoring.py and the
\* properties between them
ScenarioProps ==
    [property_type : {MDU},
     units : {Some(30), Some(MaxUnits)},
     lots : {None},
     fiber_distance_gvtc : {Some(10), Some(300)},
     fiber_distance_lease : {None},
     competitor_count : {Some(0), Some(MaxCompetitors)},
     median_income : {Some(35000), Some(120000)},
     population_density : {Some(300), Some(4000)},
     nearby_schools : {Some(0), Some(4)},
     nearby_libraries : {Some(0)},
     break_ground_date : {None, Some(60 * TicksPerDay)}]

\* the default context and a relationship strength of 4.0
ScenarioContexts == {<<30, FALSE, FALSE>>, <<40, FALSE, FALSE>>}

\* (relationship_strength, has_hoa, has_hoa_contact); the first is the default
Contexts == {<<30, FALSE, FALSE>>, <<45, TRUE, TRUE>>, <<10, TRUE, FALSE>>}

\* properties scored with a custom weight set
CustomProps ==
    [property_type : PropertyType,
     units : {None, Some(MaxUnits)},
     lots : {Some(MaxLots)},
     fiber_distance_gvtc : {None, Some(10)},
     fiber_distance_lease : {None},
     competitor_count : {Some(0)},
     median_income : {None, Some(MaxIncomeK * 5000)},
     population_density : {Some(300)},
     nearby_schools : {Some(MaxAnchors)},
     nearby_libraries : {Some(1)},
     break_ground_date : {None}]

\* the weight keys calculate_score reads, and the two breakdown identifiers
\* that differ from their weight key
WeightKeys ==
    {"scale", "fiber", "competitors", "income", "density", "erate", "timing",
     "relationship", "hoa_readiness", "fiber_proximity", "erate_anchors"}

WeightVals == {-100, 125, 1000}

\* custom weight sets: every dict of at most MaxCustomKeys keys, and the dicts
\* that give one weight to every key
CustomWeightSets ==
    UNION {[K -> WeightVals] : K \in {S \in SUBSET WeightKeys : Cardinality(S) <= MaxCustomKeys}}
    \cup {[k \in WeightKeys |-> w] : w \in WeightVals}

DefaultContext == <<30, FALSE, FALSE>>

(***************************** the stored records **************************)
\* mutant: weights.setdefault("relationship", 0.05) on the weight set in use
weights_after_score_setdefault(weights) ==
    [k \in DOMAIN weights \cup {"relationship"} |-> Get(weights, k, 50)]

\* the weight set calculate_score worked with, after the call: it is only
\* read, through weights.get
weights_after_score(weights) == weights

\* DEFAULT_WEIGHTS after a call that used the default set of a category
DefaultsAfterScore(table, prop_type) ==
    [table EXCEPT ![prop_type] = weights_after_score(@)]

\* a Property row: the columns calculate_score reads and the four it stores
StoredProperty(prop, score, tier, score_breakdown, last_scored_at) ==
    [property_type |-> prop.property_type,
     units |-> prop.units,
     lots |-> prop.lots,
     fiber_distance_gvtc |-> prop.fiber_distance_gvtc,
     fiber_distance_lease |-> prop.fiber_distance_lease,
     competitor_count |-> prop.competitor_count,
     median_income |-> prop.median_income,
     population_density |-> prop.population_density,
     nearby_schools |-> prop.nearby_schools,
     nearby_libraries |-> prop.nearby_libraries,
     break_ground_date |-> prop.break_ground_date,
     score |-> score,
     tier |-> tier,
     score_breakdown |-> score_breakdown,
     last_scored_at |-> last_scored_at]

\* mutant: the strength of a linked contact passed to calculate_score
recalculate_property_score_linked(prop, clock) ==
    LET score_result ==
            calculate_score(prop, None, 50, DefaultContext[2], DefaultContext[3],
                            <<clock[1], clock[2], clock[3]>>)
    IN  StoredProperty(prop, score_result.total_score, score_result.tier,
                       score_result.breakdown, clock[4])

\* clock = <<t1, t2, t3, t4>>: the three readings of calculate_score and the
\* reading stored as last_scored_at
recalculate_property_score(prop, clock) ==
    LET score_result ==
            calculate_score(prop, None, DefaultContext[1], DefaultContext[2],
                            DefaultContext[3], <<clock[1], clock[2], clock[3]>>)
    IN  StoredProperty(prop, score_result.total_score, score_result.tier,
                       score_result.breakdown, clock[4])

\* the readings of the clock by one recalculate_property_score call
ScoringClocks ==
    {clock \in (0..MaxClock) \X (0..MaxClock) \X (0..MaxClock) \X (0..MaxClock) :
        clock[1] <= clock[2] /\ clock[2] <= clock[3] /\ clock[3] <= clock[4]}

\* the readings of a call during which the clock stays at t
Instant(t) == <<t, t, t, t>>

PropertyIds == {1, 2}

\* the properties stored when the database is seeded: an MDU that breaks
\* ground at the time of seeding and a Subdivision without a date
SeedProperty(id) ==
    [property_type |-> IF id = 1 THEN MDU ELSE SUBDIVISION,
     units |-> IF id = 1 THEN Some(MaxCostUnits) ELSE None,
     lots |-> IF id = 1 THEN None ELSE Some(40),
     fiber_distance_gvtc |-> Some(10),
     fiber_distance_lease |-> None,
     competitor_count |-> Some(0),
     median_income |-> Some(35000),
     population_density |-> Some(300),
     nearby_schools |-> Some(MaxAnchors),
     nearby_libraries |-> Some(1),
     break_ground_date |-> IF id = 1 THEN Some(0) ELSE None]

(***************************** the state machine ***************************)
\* call: the engine function last invoked, with its arguments and its result
Idle == [op |-> "idle"]

Init ==
    /\ call = Idle
    /\ default_weights = DEFAULT_WEIGHTS
    /\ custom_weights = None
    /\ properties = [id \in PropertyIds |-> recalculate_property_score(SeedProperty(id), Instant(0))]
    /\ costs = [id \in PropertyIds |-> None]
    /\ links = {}
    /\ wall_clock = 0

Result(op, args, ret) == [op |-> op, args |-> args, ret |-> ret]

ScalePointsMdu ==
    /\ call = Idle
    /\ UNCHANGED <<default_weights, custom_weights, store>>
    /\ \E units \in UnitInputs :
        call' = Result("calculate_scale_points_mdu", units, calculate_scale_points_mdu(units))

ScalePointsSfu ==
    /\ call = Idle
    /\ UNCHANGED <<default_weights, custom_weights, store>>
    /\ \E lots \in LotInputs :
        call' = Result("calculate_scale_points_sfu", lots, calculate_scale_points_sfu(lots))

FiberProximityPoints ==
    /\ call = Idle
    /\ UNCHANGED <<default_weights, custom_weights, store>>
    /\ \E d \in DistanceInputs :
        call' = Result("calculate_fiber_proximity_points", d,
                       calculate_fiber_proximity_points(d))

IncomePoints ==
    /\ call = Idle
    /\ UNCHANGED <<default_weights, custom_weights, store>>
    /\ \E i \in IncomeInputs :
        call' = Result("calculate_income_points", i, calculate_income_points(i))

DensityPoints ==
    /\ call = Idle
    /\ UNCHANGED <<default_weights, custom_weights, store>>
    /\ \E d \in DensityInputs :
        call' = Result("calculate_density_points", d, calculate_density_points(d))

DetermineTier ==
    /\ call = Idle
    /\ UNCHANGED <<default_weights, custom_weights, store>>
    /\ \E score \in TierInputs :
        call' = Result("determine_tier", score, determine_tier(score))

CompetitorPoints ==
    /\ call = Idle
    /\ UNCHANGED <<default_weights, custom_weights, store>>
    /\ \E count \in CompetitorInputs :
        call' = Result("calculate_competitor_points", count,
                       calculate_competitor_points(count))

EratePoints ==
    /\ call = Idle
    /\ UNCHANGED <<default_weights, custom_weights, store>>
    /\ \E schools \in AnchorInputs, libraries \in AnchorInputs :
        call' = Result("calculate_erate_points", <<schools, libraries>>,
                       calculate_erate_points(schools, libraries))

\* now: the reading of datetime.now() inside calculate_timing_points
TimingPoints ==
    /\ call = Idle
    /\ UNCHANGED <<default_weights, custom_weights, store>>
    /\ \E break_ground_date \in DateInputs, now \in ClockInputs :
        call' = Result("calculate_timing_points",
                       [break_ground_date |-> break_ground_date, now |-> now],
                       calculate_timing_points(break_ground_date, now))

RelationshipPoints ==
    /\ call = Idle
    /\ UNCHANGED <<default_weights, custom_weights, store>>
    /\ \E avg_strength \in StrengthInputs :
        call' = Result("calculate_relationship_points", avg_strength,
                       calculate_relationship_points(avg_strength))

HoaReadinessPoints ==
    /\ call = Idle
    /\ UNCHANGED <<default_weights, custom_weights, store>>
    /\ \E has_hoa \in BOOLEAN, has_contact \in BOOLEAN :
        call' = Result("calculate_hoa_readiness_points", <<has_hoa, has_contact>>,
                       calculate_hoa_readiness_points(has_hoa, has_contact))

\* one call of calculate_score; the clock does not advance during the call
ScoreCall(prop, weights, context) ==
    LET clock == <<0, 0, 0>>
    IN  Result("calculate_score",
               [prop |-> prop, weights |-> weights, relationship_strength |-> context[1],
                has_hoa |-> context[2], has_hoa_contact |-> context[3], clock |-> clock],
               calculate_score(prop, weights, context[1], context[2], context[3], clock))

CalculateScore ==
    /\ call = Idle
    /\ UNCHANGED store
    /\ \/ \E prop \in ScoreProps, context \in Contexts :
            call' = ScoreCall(prop, None, context)
       \/ \E prop \in CustomProps, weights \in CustomWeightSets :
            call' = ScoreCall(prop, Some(weights), DefaultContext)
       \/ \E prop \in ScenarioProps, context \in ScenarioContexts, clock \in ClockReadings(0) :
            call' = Result("calculate_score",
                           [prop |-> prop, weights |-> None,
                            relationship_strength |-> context[1], has_hoa |-> context[2],
                            has_hoa_contact |-> context[3], clock |-> clock],
                           calculate_score(prop, None, context[1], context[2], context[3],
                                           clock))
    /\ default_weights' =
            IF call'.args.weights = None
            THEN DefaultsAfterScore(default_weights, call'.args.prop.property_type)
            ELSE default_weights
    /\ custom_weights' =
            IF call'.args.weights = None
            THEN None
            ELSE Some(weights_after_score(call'.args.weights[1]))

\* calculate_score invoked twice on the same property, weights and context;
\* the second call starts no earlier than the first one ended
CalculateScoreTwice ==
    /\ call = Idle
    /\ UNCHANGED store
    /\ \E prop \in TimedProps, first_clock \in ClockReadings(0) :
        \E second_clock \in ClockReadings(first_clock[3]) :
            call' = Result("calculate_score_twice",
                           [prop |-> prop, first_clock |-> first_clock,
                            second_clock |-> second_clock],
                           [first |-> calculate_score(prop, None, DefaultContext[1],
                                        DefaultContext[2], DefaultContext[3], first_clock),
                            second |-> calculate_score(prop, None, DefaultContext[1],
                                        DefaultContext[2], DefaultContext[3], second_clock)])
    /\ default_weights' =
            DefaultsAfterScore(DefaultsAfterScore(default_weights,
                                                  call'.args.prop.property_type),
                               call'.args.prop.property_type)
    /\ custom_weights' = None

DerivedCosts ==
    /\ call = Idle
    /\ UNCHANGED <<default_weights, custom_weights, store>>
    /\ \E cost \in CostInputs, prop \in CostProps :
        call' = Result("calculate_derived_costs", [cost |-> cost, prop |-> prop],
                       calculate_derived_costs(cost, prop))

\* recalculate_property_score on a property, the clock advancing during the call
RecalculatePropertyScore ==
    /\ call = Idle
    /\ UNCHANGED store
    /\ \E prop \in TimedProps, clock \in ScoringClocks :
        call' = Result("recalculate_property_score", [prop |-> prop, clock |-> clock],
                       recalculate_property_score(prop, clock))
    /\ default_weights' = DefaultsAfterScore(default_weights, call'.args.prop.property_type)
    /\ custom_weights' = None

\* the caller takes the result and drops the weight set it passed
Return ==
    /\ call # Idle
    /\ call' = Idle
    /\ custom_weights' = None
    /\ UNCHANGED <<default_weights, store>>

Next ==
    \/ ScalePointsMdu
    \/ ScalePointsSfu
    \/ FiberProximityPoints
    \/ IncomePoints
    \/ DensityPoints
    \/ DetermineTier
    \/ CompetitorPoints
    \/ EratePoints
    \/ TimingPoints
    \/ RelationshipPoints
    \/ HoaReadinessPoints
    \/ CalculateScore
    \/ CalculateScoreTwice
    \/ DerivedCosts
    \/ RecalculatePropertyScore
    \/ Return

Spec == Init /\ [][Next]_vars

(***************************** the API handlers ****************************)
\* the ids a request names: the stored properties and a missing one
RequestIds == PropertyIds \cup {3}

\* PropertyCreate bodies
CreateInputs == {SeedProperty(id) : id \in PropertyIds}

\* a property_type of null in a request body
NullType == "null"

\* PropertyUpdate bodies, by the fields they set (exclude_unset)
UpdateInputs ==
    {[property_type |-> MDU], [property_type |-> SUBDIVISION], [property_type |-> NullType],
     [units |-> None], [units |-> Some(MaxCostUnits)],
     [lots |-> None], [lots |-> Some(40)],
     [property_type |-> SUBDIVISION, lots |-> Some(40)]}

\* PropertyCostUpdate bodies
CostUpserts ==
    {[build_cost |-> Some(MaxBuildCost), lateral_cost |-> Some(0), make_ready_cost |-> Some(0),
      drop_cost |-> Some(0), equipment_cost |-> Some(0), lease_monthly |-> Some(0),
      estimated_take_rate |-> Some(20), arpu |-> Some(MaxArpu)]}

\* for field, value in update_data.items(): setattr(prop, field, value)
updated(prop, update_data) ==
    [field \in DOMAIN prop |->
        IF field \in DOMAIN update_data THEN update_data[field] ELSE prop[field]]

\* time passes between two requests
Tick ==
    /\ call = Idle
    /\ wall_clock < MaxNow
    /\ wall_clock' = wall_clock + 1
    /\ UNCHANGED <<call, default_weights, custom_weights, properties, costs, links>>

\* Property(**property_data.model_dump(), created_by_id=..., source="Manual")
\* passes source twice, model_dump() holding the source field of PropertyBase:
\* the call raises TypeError before a score is calculated or a row is added
CreateProperty ==
    /\ call = Idle
    /\ \E property_data \in CreateInputs :
        call' = Result("create_property", property_data, "TypeError")
    /\ UNCHANGED <<default_weights, custom_weights, store>>

\* mutant: the fields are set and committed without a new score
UpdateProperty_without_score ==
    /\ call = Idle
    /\ \E property_id \in RequestIds, update_data \in UpdateInputs :
        /\ property_id \in PropertyIds
        /\ ~("property_type" \in DOMAIN update_data /\ update_data.property_type = NullType)
        /\ call' = Result("update_property",
                          [property_id |-> property_id, update_data |-> update_data],
                          "stored")
        /\ properties' =
                [properties EXCEPT ![property_id] =
                    StoredProperty(updated(@, update_data), @.score, @.tier,
                                   @.score_breakdown, @.last_scored_at)]
    /\ UNCHANGED <<default_weights, custom_weights, costs, links, wall_clock>>

\* mutant: the derived fields of the cost record follow the updated property
UpdateProperty_deriving_costs ==
    /\ call = Idle
    /\ \E property_id \in PropertyIds, update_data \in UpdateInputs :
        /\ ~("property_type" \in DOMAIN update_data /\ update_data.property_type = NullType)
        /\ call' = Result("update_property",
                          [property_id |-> property_id, update_data |-> update_data],
                          "stored")
        /\ properties' =
                [properties EXCEPT ![property_id] =
                    recalculate_property_score(updated(@, update_data), Instant(wall_clock))]
        /\ costs' =
                [costs EXCEPT ![property_id] =
                    IF @ = None THEN None
                    ELSE Some(calculate_derived_costs(@[1], properties'[property_id]))]
    /\ UNCHANGED <<default_weights, custom_weights, links, wall_clock>>

\* a missing property is a 404; a property_type set to null passes the
\* scoring and fails the commit on the NOT NULL column, nothing being stored
UpdateProperty ==
    /\ call = Idle
    /\ \E property_id \in RequestIds, update_data \in UpdateInputs :
        IF property_id \notin PropertyIds
        THEN /\ call' = Result("update_property",
                               [property_id |-> property_id, update_data |-> update_data],
                               "404")
             /\ UNCHANGED <<default_weights, properties>>
        ELSE IF "property_type" \in DOMAIN update_data /\ update_data.property_type = NullType
        THEN /\ call' = Result("update_property",
                               [property_id |-> property_id, update_data |-> update_data],
                               "IntegrityError")
             /\ UNCHANGED <<default_weights, properties>>
        ELSE /\ call' = Result("update_property",
                               [property_id |-> property_id, update_data |-> update_data],
                               "stored")
             /\ properties' =
                    [properties EXCEPT ![property_id] =
                        recalculate_property_score(updated(@, update_data),
                                                   Instant(wall_clock))]
             /\ default_weights' =
                    DefaultsAfterScore(default_weights,
                                       properties'[property_id].property_type)
    /\ UNCHANGED <<custom_weights, costs, links, wall_clock>>

RecalculateScore ==
    /\ call = Idle
    /\ \E property_id \in RequestIds :
        IF property_id \notin PropertyIds
        THEN /\ call' = Result("recalculate_score", property_id, "404")
             /\ UNCHANGED <<default_weights, properties>>
        ELSE /\ call' = Result("recalculate_score", property_id, "stored")
             /\ properties' =
                    [properties EXCEPT ![property_id] =
                        recalculate_property_score(@, Instant(wall_clock))]
             /\ default_weights' =
                    DefaultsAfterScore(default_weights, properties[property_id].property_type)
    /\ UNCHANGED <<custom_weights, costs, links, wall_clock>>

RecalculateAllScores ==
    /\ call = Idle
    /\ call' = Result("recalculate_all_scores", Cardinality(PropertyIds), "stored")
    /\ properties' =
            [property_id \in PropertyIds |->
                recalculate_property_score(properties[property_id], Instant(wall_clock))]
    /\ default_weights' =
            DefaultsAfterScore(DefaultsAfterScore(default_weights, MDU), SUBDIVISION)
    /\ UNCHANGED <<custom_weights, costs, links, wall_clock>>

\* mutant: the fresh score written back to the property
GetScoreBreakdown_storing ==
    /\ call = Idle
    /\ \E property_id \in PropertyIds :
        /\ call' = Result("get_score_breakdown", property_id,
                          calculate_score(properties[property_id], None, DefaultContext[1],
                                          DefaultContext[2], DefaultContext[3],
                                          <<wall_clock, wall_clock, wall_clock>>))
        /\ properties' =
                [properties EXCEPT ![property_id] =
                    recalculate_property_score(@, Instant(wall_clock))]
    /\ UNCHANGED <<default_weights, custom_weights, costs, links, wall_clock>>

\* the response holds the fresh score; nothing is assigned to the property
\* and nothing is committed
GetScoreBreakdown ==
    /\ call = Idle
    /\ \E property_id \in RequestIds :
        IF property_id \notin PropertyIds
        THEN /\ call' = Result("get_score_breakdown", property_id, "404")
             /\ UNCHANGED default_weights
        ELSE /\ call' = Result("get_score_breakdown", property_id,
                               calculate_score(properties[property_id], None,
                                               DefaultContext[1], DefaultContext[2],
                                               DefaultContext[3],
                                               <<wall_clock, wall_clock, wall_clock>>))
             /\ default_weights' =
                    DefaultsAfterScore(default_weights, properties[property_id].property_type)
    /\ UNCHANGED <<custom_weights, store>>

\* the cost record is created from the body or has the body's fields set,
\* then its derived fields are calculated from the property as stored now
UpsertPropertyCosts ==
    /\ call = Idle
    /\ \E property_id \in RequestIds, cost_data \in CostUpserts :
        IF property_id \notin PropertyIds
        THEN /\ call' = Result("upsert_property_costs", property_id, "404")
             /\ UNCHANGED costs
        ELSE /\ call' = Result("upsert_property_costs", property_id, "stored")
             /\ costs' =
                    [costs EXCEPT ![property_id] =
                        Some(calculate_derived_costs(
                                IF @ = None THEN cost_data ELSE updated(@[1], cost_data),
                                properties[property_id]))]
    /\ UNCHANGED <<default_weights, custom_weights, properties, links, wall_clock>>

\* a contact of relationship strength 5 linked to a property
LinkContactToProperty ==
    /\ call = Idle
    /\ \E property_id \in RequestIds :
        IF property_id \notin PropertyIds
        THEN /\ call' = Result("link_contact_to_property", property_id, "404")
             /\ UNCHANGED links
        ELSE /\ call' = Result("link_contact_to_property", property_id, "linked")
             /\ links' = links \cup {property_id}
    /\ UNCHANGED <<default_weights, custom_weights, properties, costs, wall_clock>>

StoreNext ==
    \/ Tick
    \/ CreateProperty
    \/ UpdateProperty
    \/ RecalculateScore
    \/ RecalculateAllScores
    \/ GetScoreBreakdown
    \/ UpsertPropertyCosts
    \/ LinkContactToProperty
    \/ Return

StoreSpec == Init /\ [][StoreNext]_vars

(***************************** the claims **********************************)
Scored == call.op = "calculate_score"

Factors(breakdown) == [i \in 1..Len(breakdown) |-> breakdown[i].factor]

\* the weight key of a breakdown identifier
WeightKey(factor) ==
    IF factor = "fiber_proximity" THEN "fiber"
    ELSE IF factor = "erate_anchors" THEN "erate"
    ELSE factor

\* the points of the eight factors of a call, in breakdown order
FactorPoints(a) ==
    <<scale_points(a.prop),
      calculate_fiber_proximity_points(best_fiber_distance(a.prop)),
      calculate_competitor_points(a.prop.competitor_count),
      calculate_income_points(a.prop.median_income),
      calculate_density_points(a.prop.population_density),
      calculate_erate_points(a.prop.nearby_schools, a.prop.nearby_libraries),
      calculate_timing_points(a.prop.break_ground_date, a.clock[1]),
      IF a.prop.property_type = MDU
      THEN calculate_relationship_points(a.relationship_strength)
      ELSE calculate_hoa_readiness_points(a.has_hoa, a.has_hoa_contact)>>

\* sum over the breakdown of points x applied weight, in thousandths
WeightedSum(a, breakdown) ==
    LET pts == FactorPoints(a)
        Sum[i \in 0..8] == IF i = 0 THEN 0 ELSE Sum[i - 1] + pts[i] * breakdown[i].weight
    IN  Sum[8]

\* C1: with the category's default weight set, every property and context
\* gets 0 <= total_score <= 100 and a tier of 1, 2 or 3.
C1_ScoreAndTierInRange ==
    (Scored /\ call.args.weights = None) =>
        /\ 0 <= call.ret.total_score
        /\ call.ret.total_score <= 10000
        /\ call.ret.tier \in {1, 2, 3}

C1_Witness ==
    /\ Scored
    /\ call.args.weights = None
    /\ call.args.prop.property_type = SUBDIVISION
    /\ call.ret.total_score = 10000
    /\ call.ret.tier = 1

\* C2: determine_tier has closed lower bounds (>= 75 -> 1, 50 <= s < 75 -> 2,
\* < 50 -> 3), and the tier calculate_score returns is that of its total_score.
TierOf(score, tier) ==
    /\ score >= 7500 => tier = 1
    /\ (5000 <= score /\ score < 7500) => tier = 2
    /\ score < 5000 => tier = 3

C2_TierClosedLowerBounds ==
    /\ call.op = "determine_tier" => TierOf(call.args, call.ret)
    /\ Scored => TierOf(call.ret.total_score, call.ret.tier)

C2_Witness ==
    /\ call.op = "determine_tier"
    /\ call.args = 7500
    /\ call.ret = 1

\* C3: the breakdown has exactly the eight factors of the property's category,
\* in the fixed order, whatever attributes are absent.
C3_BreakdownFactors ==
    Scored =>
        Factors(call.ret.breakdown) =
            <<"scale", "fiber_proximity", "competitors", "income", "density",
              "erate_anchors", "timing",
              IF call.args.prop.property_type = MDU THEN "relationship" ELSE "hoa_readiness">>

C3_Witness ==
    /\ Scored
    /\ call.args.prop.property_type = SUBDIVISION
    /\ call.args.prop.lots = None
    /\ call.args.prop.fiber_distance_gvtc = None
    /\ call.args.prop.fiber_distance_lease = None
    /\ call.args.prop.competitor_count = None
    /\ call.args.prop.break_ground_date = None
    /\ Len(call.ret.breakdown) = 8
    /\ call.ret.breakdown[8].factor = "hoa_readiness"

\* C4: total_score is the sum of points x weight over the eight factors,
\* capped at 100 and rounded to 2 decimals, with no floor: a sum above 100
\* gives exactly 100 and a sum below 0 is returned (rounded) as it is.
C4_CappedRoundedSum ==
    Scored =>
        LET sum == WeightedSum(call.args, call.ret.breakdown)
            score == call.ret.total_score
        IN  /\ sum > 100000 => score = 10000
            /\ sum <= 100000 => (10 * score - sum <= 5 /\ sum - 10 * score <= 5)

C4_Witness ==
    /\ Scored
    /\ call.args.weights # None
    /\ WeightedSum(call.args, call.ret.breakdown) < 0
    /\ call.ret.total_score < 0

\* C5: a factor omitted from a custom weight set is weighted with the default
\* of the property's own category, the value DEFAULT_WEIGHTS holds for it.
C5_OmittedWeightIsCategoryDefault ==
    (Scored /\ call.args.weights # None) =>
        \A i \in 1..Len(call.ret.breakdown) :
            LET key == WeightKey(call.ret.breakdown[i].factor)
            IN  key \notin DOMAIN call.args.weights[1] =>
                    call.ret.breakdown[i].weight =
                        DEFAULT_WEIGHTS[call.args.prop.property_type][key]

\* C6 as stated: the weight applied to a breakdown entry is the value the
\* custom weight set holds under the entry's own factor identifier.
C6_WeightUnderFactorIdentifier ==
    (Scored /\ call.args.weights # None) =>
        \A i \in 1..Len(call.ret.breakdown) :
            LET factor == call.ret.breakdown[i].factor
            IN  factor \in DOMAIN call.args.weights[1] =>
                    call.ret.breakdown[i].weight = call.args.weights[1][factor]

\* C6 as amended: the weight applied to a breakdown entry is the value the
\* custom weight set holds under the entry's weight key, which is its factor
\* identifier except "fiber" for fiber_proximity and "erate" for erate_anchors.
C6_WeightUnderWeightKey ==
    (Scored /\ call.args.weights # None) =>
        \A i \in 1..Len(call.ret.breakdown) :
            LET key == WeightKey(call.ret.breakdown[i].factor)
            IN  key \in DOMAIN call.args.weights[1] =>
                    call.ret.breakdown[i].weight = call.args.weights[1][key]

C6_Witness ==
    /\ Scored
    /\ call.args.weights # None
    /\ DOMAIN call.args.weights[1] = {"fiber", "fiber_proximity"}
    /\ call.args.weights[1]["fiber"] = 125
    /\ call.args.weights[1]["fiber_proximity"] = 1000
    /\ call.ret.breakdown[2].weight = 125

\* the fiber_proximity line of the call's property moved to distance d
FiberLineAt(a, d) ==
    calculate_score([a.prop EXCEPT !.fiber_distance_gvtc = d], a.weights,
                    a.relationship_strength, a.has_hoa, a.has_hoa_contact,
                    a.clock).breakdown[2]

\* C7: with the default weights and no lease-partner distance, the fiber
\* contribution does not increase with the distance, a distance of 0 included;
\* with both distances absent it is the contribution of a distance that
\* scores 40 points (1.5 miles).
C7_FiberMonotone ==
    (Scored /\ call.args.weights = None /\ call.args.prop.fiber_distance_lease = None) =>
        LET d1 == call.args.prop.fiber_distance_gvtc
            line == call.ret.breakdown[2]
        IN  /\ d1 # None =>
                \A d2 \in {d \in 0..MaxDistance : d % 5 = 0} :
                    d1[1] <= d2 => line.points >= FiberLineAt(call.args, Some(d2)).points
            /\ d1 = None => line.points = FiberLineAt(call.args, Some(150)).points

\* the minimum of the distances that are present, None when both are absent
NearestPresent(gvtc, lease) ==
    IF gvtc = None THEN lease
    ELSE IF lease = None THEN gvtc
    ELSE Some(Min(gvtc[1], lease[1]))

\* C8: the fiber factor is evaluated on the minimum of the distances that are
\* present, a distance of 0 counting as present; it is scored as absent, with
\* 40 points and an absent raw value, only when both are absent.
C8_FiberOnNearestPresent ==
    Scored =>
        LET nearest == NearestPresent(call.args.prop.fiber_distance_gvtc,
                                      call.args.prop.fiber_distance_lease)
            line == call.ret.breakdown[2]
        IN  /\ line.raw_value = nearest
            /\ line.points = Round2(calculate_fiber_proximity_points(nearest) * line.weight)
            /\ line.raw_value = None =>
                    /\ call.args.prop.fiber_distance_gvtc = None
                    /\ call.args.prop.fiber_distance_lease = None

\* a step table with inclusive lower bounds t4 > t3 > t2 > t1 and a bottom step
StepTable(n, t4, p4, t3, p3, t2, p2, t1, p1, bottom, points) ==
    /\ n >= t4 => points = p4
    /\ (t3 <= n /\ n < t4) => points = p3
    /\ (t2 <= n /\ n < t3) => points = p2
    /\ (t1 <= n /\ n < t2) => points = p1
    /\ n < t1 => points = bottom

\* C9: scale points follow the category's step table (MDU 400/250/150/75,
\* Subdivision 1000/600/300/150 -> 100/85/70/55), and every count below the
\* lowest threshold, zero, negative and absent included, yields 35.
C9_ScaleStepTable ==
    /\ call.op = "calculate_scale_points_mdu" =>
        IF call.args = None THEN call.ret = 35
        ELSE StepTable(call.args[1], 400, 100, 250, 85, 150, 70, 75, 55, 35, call.ret)
    /\ call.op = "calculate_scale_points_sfu" =>
        IF call.args = None THEN call.ret = 35
        ELSE StepTable(call.args[1], 1000, 100, 600, 85, 300, 70, 150, 55, 35, call.ret)

C9_Witness ==
    /\ call.op = "calculate_scale_points_mdu"
    /\ call.args = Some(0)
    /\ call.ret = 35

\* C10: income and density points follow their step tables for every present
\* value, 0 included (-> 25); only an absent value yields the default 50.
C10_IncomeDensityStepTable ==
    /\ call.op = "calculate_income_points" =>
        IF call.args = None THEN call.ret = 50
        ELSE StepTable(call.args[1], 110000, 100, 85000, 80, 65000, 60, 45000, 40, 25,
                       call.ret)
    /\ call.op = "calculate_density_points" =>
        IF call.args = None THEN call.ret = 50
        ELSE StepTable(call.args[1], 3000, 100, 2000, 80, 1200, 60, 600, 40, 25, call.ret)

\* C11: competitor points tell an unknown count from zero: absent -> 50,
\* 0 -> 100, 1 -> 80, 2 -> 60, every count >= 3 -> 30.
C11_CompetitorTable ==
    call.op = "calculate_competitor_points" =>
        IF call.args = None THEN call.ret = 50
        ELSE /\ call.args[1] = 0 => call.ret = 100
             /\ call.args[1] = 1 => call.ret = 80
             /\ call.args[1] = 2 => call.ret = 60
             /\ call.args[1] >= 3 => call.ret = 30

C11_Witness ==
    /\ call.op = "calculate_competitor_points"
    /\ call.args = Some(0)
    /\ call.ret = 100

\* the whole number of days from now to date: the d with
\* d days <= date - now < d + 1 days
WholeDays(date, now) ==
    CHOOSE d \in -3..(MaxDays + 2) :
        /\ d * TicksPerDay <= date[1] - now
        /\ date[1] - now < (d + 1) * TicksPerDay

TimingTable(days, points) ==
    /\ days < 0 => points = 50
    /\ (0 <= days /\ days <= 180) => points = 100
    /\ (181 <= days /\ days <= 365) => points = 70
    /\ (366 <= days /\ days <= 730) => points = 40
    /\ days > 730 => points = 20

\* C12: timing points depend only on the whole number of days from the clock
\* reading to the break-ground date: negative -> 50, 0..180 -> 100,
\* 181..365 -> 70, 366..730 -> 40, more -> 20; an absent date -> 40.
C12_TimingTable ==
    call.op = "calculate_timing_points" =>
        IF call.args.break_ground_date = None THEN call.ret = 40
        ELSE TimingTable(WholeDays(call.args.break_ground_date, call.args.now), call.ret)

\* a date less than a day in the past
C12_Witness ==
    /\ call.op = "calculate_timing_points"
    /\ call.args.break_ground_date # None
    /\ call.args.break_ground_date[1] - call.args.now = -1
    /\ call.ret = 50

PresentOrZero(x) == IF x = None THEN 0 ELSE x[1]

\* C13: e-rate points are a function of schools + libraries, an absent count
\* being 0: >= 3 -> 100, 2 -> 80, 1 -> 60, 0 -> 30, whatever the split.
C13_ErateTable ==
    call.op = "calculate_erate_points" =>
        LET sum == PresentOrZero(call.args[1]) + PresentOrZero(call.args[2])
        IN  /\ sum >= 3 => call.ret = 100
            /\ sum = 2 => call.ret = 80
            /\ sum = 1 => call.ret = 60
            /\ sum = 0 => call.ret = 30

C13_Witness ==
    /\ call.op = "calculate_erate_points"
    /\ call.args = <<None, Some(2)>>
    /\ call.ret = 80

RelationshipTable(strength, points) ==
    /\ strength >= 45 => points = 100
    /\ (35 <= strength /\ strength < 45) => points = 80
    /\ (25 <= strength /\ strength < 35) => points = 60
    /\ (15 <= strength /\ strength < 25) => points = 40
    /\ strength < 15 => points = 20

HoaTable(has_hoa, has_contact, points) ==
    /\ (has_hoa /\ has_contact) => points = 100
    /\ (has_hoa /\ ~has_contact) => points = 70
    /\ ~has_hoa => points = 40

\* the points p of a table for which the eighth line of a breakdown holds
\* round(p x weight, 2)
EighthLineFrom(line, Table(_)) ==
    \E p \in {20, 40, 60, 70, 80, 100} : Table(p) /\ line.points = Round2(p * line.weight)

\* C14: the eighth factor follows its table, in the evaluators and in
\* calculate_score: relationship strength >= 4.5 -> 100, >= 3.5 -> 80,
\* >= 2.5 -> 60 (the default 3.0 included), >= 1.5 -> 40, else 20 for an MDU;
\* (has_hoa, has_contact) both -> 100, has_hoa only -> 70, no HOA -> 40 for a
\* Subdivision.
C14_EighthFactorTable ==
    /\ call.op = "calculate_relationship_points" => RelationshipTable(call.args, call.ret)
    /\ call.op = "calculate_hoa_readiness_points" =>
            HoaTable(call.args[1], call.args[2], call.ret)
    /\ Scored =>
        LET line == call.ret.breakdown[8]
            Rel(p) == RelationshipTable(call.args.relationship_strength, p)
            Hoa(p) == HoaTable(call.args.has_hoa, call.args.has_hoa_contact, p)
        IN  IF call.args.prop.property_type = MDU
            THEN /\ EighthLineFrom(line, Rel)
                 /\ call.args.relationship_strength = 30 => line.points = Round2(60 * line.weight)
            ELSE EighthLineFrom(line, Hoa)

C14_Witness ==
    /\ call.op = "calculate_hoa_readiness_points"
    /\ call.args = <<FALSE, TRUE>>
    /\ call.ret = 40

ScoredTwice == call.op = "calculate_score_twice"

\* the two results agree on everything but calculated_at
SameButTimestamp(first, second) ==
    /\ first.total_score = second.total_score
    /\ first.tier = second.tier
    /\ first.breakdown = second.breakdown

\* the two calls see the same whole number of days to the break-ground date
\* at each of the two readings that enter the score
SameWholeDays ==
    LET date == call.args.prop.break_ground_date
    IN  date # None =>
            \A i \in 1..2 :
                WholeDays(date, call.args.first_clock[i])
                    = WholeDays(date, call.args.second_clock[i])

\* C15 as stated: two calls of calculate_score with identical property,
\* context and weights give identical total_score, tier and breakdown,
\* whatever time elapses between them.
C15_IdenticalWhateverElapses ==
    ScoredTwice => SameButTimestamp(call.ret.first, call.ret.second)

\* C15: two calls of calculate_score with identical property, context and
\* weights give identical total_score, tier and breakdown, calculated_at
\* apart, provided the property has no break-ground date or the whole number
\* of days from the clock readings to that date is the same in both calls.
C15_IdenticalOnSameWholeDays ==
    (ScoredTwice /\ SameWholeDays) => SameButTimestamp(call.ret.first, call.ret.second)

\* time has passed between two calls on a dated property, within the same day
C15_Witness ==
    /\ ScoredTwice
    /\ call.args.prop.break_ground_date = Some(60 * TicksPerDay + 1)
    /\ call.args.first_clock = <<0, 0, 0>>
    /\ call.args.second_clock = <<1, 1, 1>>
    /\ SameWholeDays
    /\ call.ret.first.calculated_at # call.ret.second.calculated_at
    /\ SameButTimestamp(call.ret.first, call.ret.second)

Derived == call.op = "calculate_derived_costs"

\* an absent amount counted as 0
Amount(x) == IF x = None THEN 0 ELSE x[1]

\* C16: total_capex is always the sum of the five build-cost components, an
\* absent one counted as 0, and is never null.
C16_CapexIsSumOfFive ==
    Derived =>
        /\ call.ret.total_capex # None
        /\ call.ret.total_capex[1]
             = Amount(call.args.cost.build_cost) + Amount(call.args.cost.lateral_cost)
               + Amount(call.args.cost.make_ready_cost) + Amount(call.args.cost.drop_cost)
               + Amount(call.args.cost.equipment_cost)

\* equipment present, lateral and make-ready absent, revenue inputs absent
C16_Witness ==
    /\ Derived
    /\ call.args.cost.build_cost = Some(MaxBuildCost)
    /\ call.args.cost.lateral_cost = None
    /\ call.args.cost.make_ready_cost = None
    /\ call.args.cost.drop_cost = Some(300)
    /\ call.args.cost.equipment_cost = Some(1200)
    /\ call.args.cost.arpu = None
    /\ call.ret.total_capex = Some(MaxBuildCost + 1500)

\* monthly profit, in ten-thousandths of a dollar, of a record whose revenue
\* is known
MonthlyProfit(ret) == ret.estimated_monthly_revenue[1] - Amount(ret.lease_monthly) * 10000

\* C17: payback_months = floor(total capex / monthly profit) whenever the
\* monthly profit (estimated monthly revenue - monthly lease) is > 0, a total
\* capex of 0 giving payback 0.
C17_PaybackIsFloor ==
    (Derived /\ call.ret.estimated_monthly_revenue # None /\ MonthlyProfit(call.ret) > 0) =>
        call.ret.payback_months
            = Some((call.ret.total_capex[1] * 10000) \div MonthlyProfit(call.ret))

\* C18: payback_months is null whenever the estimated monthly revenue is null
\* or the monthly profit is <= 0, in particular whenever the lease is at
\* least the revenue.
C18_NoPaybackWithoutProfit ==
    (Derived /\ (\/ call.ret.estimated_monthly_revenue = None
                 \/ MonthlyProfit(call.ret) <= 0)) =>
        call.ret.payback_months = None

\* a positive revenue eaten up by the lease
C18_Witness ==
    /\ Derived
    /\ call.ret.estimated_monthly_revenue # None
    /\ call.ret.estimated_monthly_revenue[1] > 0
    /\ call.ret.total_capex[1] > 0
    /\ MonthlyProfit(call.ret) <= 0
    /\ call.ret.payback_months = None

\* the take rate as a fraction, in ten-thousandths: a value > 1 is a percentage
NormalizedRate(rate) == IF rate > 100 THEN rate ELSE rate * 100

\* C19: estimated_monthly_revenue = scale count x normalized take rate x ARPU
\* whenever the three are present (a present 0 giving revenue 0), and null
\* exactly when one of them is absent.
C19_RevenueWhenAllPresent ==
    Derived =>
        LET cost == call.args.cost
            count == unit_count(call.args.prop)
        IN  IF cost.estimated_take_rate # None /\ cost.arpu # None /\ count # None
            THEN call.ret.estimated_monthly_revenue
                    = Some(count[1] * NormalizedRate(cost.estimated_take_rate[1]) * cost.arpu[1])
            ELSE call.ret.estimated_monthly_revenue = None

\* the revenue of the call's property and ARPU at another take rate
RevenueAtRate(rate) ==
    estimated_monthly_revenue([call.args.cost EXCEPT !.estimated_take_rate = Some(rate)],
                              unit_count(call.args.prop))

\* the call's take rate is a whole percentage p > 1
WholePercentage ==
    /\ Derived
    /\ call.args.cost.estimated_take_rate # None
    /\ call.args.cost.estimated_take_rate[1] > 100
    /\ call.args.cost.estimated_take_rate[1] % 100 = 0

\* C20 as stated: for the same scale count and ARPU a take rate p > 1 and the
\* take rate p/100 give the same estimated_monthly_revenue.
C20_PercentageEqualsFraction ==
    WholePercentage =>
        call.ret.estimated_monthly_revenue
            = RevenueAtRate(call.args.cost.estimated_take_rate[1] \div 100)

\* C20: a take rate > 1 is divided by 100 and one <= 1 is used unchanged, so
\* for the same scale count and ARPU a take rate p with 1 < p <= 100 and the
\* take rate p/100 give the same estimated_monthly_revenue.
C20_PercentageUpTo100EqualsFraction ==
    /\ (Derived /\ call.ret.estimated_monthly_revenue # None) =>
            call.ret.estimated_monthly_revenue[1]
                = unit_count(call.args.prop)[1]
                  * NormalizedRate(call.args.cost.estimated_take_rate[1])
                  * call.args.cost.arpu[1]
    /\ (WholePercentage /\ call.args.cost.estimated_take_rate[1] <= 10000) =>
            call.ret.estimated_monthly_revenue
                = RevenueAtRate(call.args.cost.estimated_take_rate[1] \div 100)

\* a take rate of 20 giving the revenue 1200 of a take rate of 0.20
C20_Witness ==
    /\ Derived
    /\ call.args.cost.estimated_take_rate = Some(2000)
    /\ call.args.cost.arpu = Some(MaxArpu)
    /\ call.args.prop.property_type = MDU
    /\ call.args.prop.units = Some(MaxCostUnits)
    /\ call.ret.estimated_monthly_revenue = Some(MaxCostUnits * 2000 * MaxArpu)
    /\ call.ret.estimated_monthly_revenue = RevenueAtRate(20)

\* the scale count of the call's property: units for an MDU, lots otherwise
ScaleCount(prop) == IF prop.property_type = "MDU" THEN prop.units ELSE prop.lots

\* C21: cost_per_unit = total capex / scale count (units for an MDU, lots for
\* a Subdivision) when the count is present and > 0, and is null, not zero,
\* when the count is absent, zero or negative.
C21_CostPerUnit ==
    Derived =>
        LET count == ScaleCount(call.args.prop)
            ratio == call.ret.cost_per_unit
        IN  IF count # None /\ count[1] > 0
            THEN /\ ratio # None
                 /\ ratio[1][1] * count[1] = call.ret.total_capex[1] * ratio[1][2]
            ELSE ratio = None

\* a capex to spread over a count of zero
C21_Witness ==
    /\ Derived
    /\ call.args.prop.property_type = MDU
    /\ call.args.prop.units = Some(0)
    /\ call.ret.total_capex[1] > 0
    /\ call.ret.cost_per_unit = None

\* the other category's count of the call's property set to every value
OtherCount(prop) ==
    IF prop.property_type = MDU
    THEN {[prop EXCEPT !.lots = n] : n \in {None, Some(0), Some(40), Some(MaxLots)}}
    ELSE {[prop EXCEPT !.units = n] : n \in {None, Some(0), Some(MaxCostUnits), Some(MaxUnits)}}

\* C22: the scale count is selected by the category only: the score and the
\* derived costs of an MDU are the same for every lot count, those of a
\* Subdivision for every unit count, both counts present or both absent
\* included.
C22_CountOfOtherCategoryIgnored ==
    /\ Scored =>
        \A other \in OtherCount(call.args.prop) :
            calculate_score(other, call.args.weights, call.args.relationship_strength,
                            call.args.has_hoa, call.args.has_hoa_contact, call.args.clock)
                = call.ret
    /\ Derived =>
        \A other \in OtherCount(call.args.prop) :
            calculate_derived_costs(call.args.cost, other) = call.ret

\* a Subdivision with both counts present, costed on its lots
C22_Witness ==
    /\ Derived
    /\ call.args.prop.property_type = SUBDIVISION
    /\ call.args.prop.units = Some(MaxCostUnits)
    /\ call.args.prop.lots = Some(40)
    /\ call.args.cost.build_cost = Some(MaxBuildCost)
    /\ call.ret.cost_per_unit # None
    /\ call.ret.cost_per_unit[1][1] * 40 = call.ret.total_capex[1] * call.ret.cost_per_unit[1][2]

\* test_high_score_property: the break-ground date is 60 days after the clock
\* reading taken before the call
HighScoreProperty ==
    [property_type |-> MDU, units |-> Some(MaxUnits), lots |-> None,
     fiber_distance_gvtc |-> Some(10), fiber_distance_lease |-> None,
     competitor_count |-> Some(0), median_income |-> Some(120000),
     population_density |-> Some(4000), nearby_schools |-> Some(4),
     nearby_libraries |-> Some(0), break_ground_date |-> Some(60 * TicksPerDay)]

\* C25: an MDU with units=450, fiber distance 0.1, competitors=0,
\* income=120000, density=4000, schools=4, libraries=0, break-ground date 60
\* days ahead and relationship strength 4.0, scored with default weights, gets
\* total_score >= 85 and tier 1.
C25_HighScoreScenario ==
    (Scored /\ call.args.prop = HighScoreProperty /\ call.args.weights = None
        /\ call.args.relationship_strength = 40) =>
        /\ call.ret.total_score >= 8500
        /\ call.ret.tier = 1

\* the scenario, scored a tick after the date was set: 59 whole days ahead
C25_Witness ==
    /\ Scored
    /\ call.args.prop = HighScoreProperty
    /\ call.args.weights = None
    /\ call.args.relationship_strength = 40
    /\ call.args.clock[1] = 1
    /\ call.ret.breakdown[7].raw_value = Some(59)
    /\ call.ret.total_score = 9900
    /\ call.ret.tier = 1

\* test_low_score_property
LowScoreProperty ==
    [property_type |-> MDU, units |-> Some(30), lots |-> None,
     fiber_distance_gvtc |-> Some(300), fiber_distance_lease |-> None,
     competitor_count |-> Some(MaxCompetitors), median_income |-> Some(35000),
     population_density |-> Some(300), nearby_schools |-> Some(0),
     nearby_libraries |-> Some(0), break_ground_date |-> None]

\* C26: an MDU with units=30, fiber distance 3.0, competitors=5, income=35000,
\* density=300, schools=0, libraries=0 and no break-ground date, scored with
\* default weights and the default context, gets total_score < 50 and tier 3.
C26_LowScoreScenario ==
    (Scored /\ call.args.prop = LowScoreProperty /\ call.args.weights = None
        /\ call.args.relationship_strength = DefaultContext[1]
        /\ call.args.has_hoa = DefaultContext[2]
        /\ call.args.has_hoa_contact = DefaultContext[3]) =>
        /\ call.ret.total_score < 5000
        /\ call.ret.tier = 3

C26_Witness ==
    /\ Scored
    /\ call.args.prop = LowScoreProperty
    /\ call.args.weights = None
    /\ call.args.relationship_strength = DefaultContext[1]
    /\ call.ret.total_score = 3025
    /\ call.ret.tier = 3

\* the timing line of a breakdown shows the points the table gives for the
\* days it records
TimingLineConsistent(line) ==
    line.raw_value # None =>
        \E p \in {20, 40, 50, 70, 100} :
            /\ TimingTable(line.raw_value[1], p)
            /\ line.points = Round2(p * line.weight)

\* C28: within one calculate_score call on a property with a break-ground
\* date, the days recorded as raw_value of the timing entry are the days that
\* selected its timing points, although the clock is read a second time for
\* them and may have advanced.
C28_TimingRawValueMatchesPoints ==
    /\ Scored => TimingLineConsistent(call.ret.breakdown[7])
    /\ ScoredTwice =>
        /\ TimingLineConsistent(call.ret.first.breakdown[7])
        /\ TimingLineConsistent(call.ret.second.breakdown[7])

\* C24: DEFAULT_WEIGHTS holds its initial values after every calculate_score
\* and recalculate_property_score call, with or without a custom weight set
\* and for either category, and the weight set a caller passed is unchanged
\* after the call.
C24_WeightSetsNeverMutated ==
    /\ default_weights = DEFAULT_WEIGHTS
    /\ (Scored /\ call.args.weights # None) => custom_weights = call.args.weights

\* a Subdivision scored with a custom weight set that lacks weight keys
C24_Witness ==
    /\ Scored
    /\ call.args.prop.property_type = SUBDIVISION
    /\ call.args.weights # None
    /\ "relationship" \notin DOMAIN call.args.weights[1]
    /\ Cardinality(DOMAIN call.args.weights[1]) = 1
    /\ custom_weights = call.args.weights
    /\ default_weights = DEFAULT_WEIGHTS

\* C23: get_score_breakdown is read-only: the stored score, tier,
\* score_breakdown and last_scored_at of the property, and every other stored
\* field of every record, are the same after it as before, in every state.
C23_BreakdownQueryReadOnly ==
    [][GetScoreBreakdown => (properties' = properties /\ costs' = costs /\ links' = links)]_vars

\* the query answers with a score that differs from the stored one
C23_Witness ==
    /\ call.op = "get_score_breakdown"
    /\ call.args \in PropertyIds
    /\ call.ret.total_score # properties[call.args].score
    /\ properties[call.args].last_scored_at < wall_clock

\* the breakdown identifiers of a category, in order
CategoryFactors(property_type) ==
    <<"scale", "fiber_proximity", "competitors", "income", "density", "erate_anchors",
      "timing", IF property_type = "MDU" THEN "relationship" ELSE "hoa_readiness">>

\* C27: after any sequence of create_property, update_property,
\* recalculate_score, recalculate_all_scores and cost upserts every stored
\* property has tier = determine_tier(score), score <= 100 and a breakdown of
\* the 8 entries of its current category.
C27_StoredScoreConsistent ==
    \A id \in PropertyIds :
        LET p == properties[id]
        IN  /\ p.tier = (IF p.score >= 7500 THEN 1 ELSE IF p.score >= 5000 THEN 2 ELSE 3)
            /\ p.score <= 10000
            /\ Len(p.score_breakdown) = 8
            /\ Factors(p.score_breakdown) = CategoryFactors(p.property_type)
            /\ p.score_breakdown[1].unit = (IF p.property_type = "MDU" THEN "units" ELSE "lots")

\* the seeded MDU, updated to a Subdivision
C27_Witness ==
    /\ properties[1].property_type = SUBDIVISION
    /\ properties[1].score_breakdown[8].factor = "hoa_readiness"
    /\ properties[1].score_breakdown[1].unit = "lots"

\* C29: the derived cost fields are written only by upsert_property_costs:
\* create_property, update_property, recalculate_score and
\* recalculate_all_scores leave every cost record as it is, so the derived
\* fields reflect the scale count as of the last cost upsert.
C29_CostsWrittenByUpsertOnly ==
    [][/\ (CreateProperty \/ UpdateProperty \/ RecalculateScore \/ RecalculateAllScores)
            => costs' = costs
       /\ costs' # costs => UpsertPropertyCosts]_vars

\* a cost per unit that is not the one of the property's present scale count
C29_Witness ==
    /\ costs[1] # None
    /\ costs[1][1].total_capex = Some(MaxBuildCost)
    /\ costs[1][1].cost_per_unit = Some(<<MaxBuildCost \div GCD(MaxBuildCost, MaxCostUnits),
                                          MaxCostUnits \div GCD(MaxBuildCost, MaxCostUnits)>>)
    /\ properties[1].property_type = MDU
    /\ properties[1].units = None

\* C30: every stored score is the score calculate_score gives the property's
\* own attributes at the time of scoring with the default weight set and the
\* default context, whatever contacts are linked: the eighth entry contributes
\* 60 x 0.05 for an MDU and 40 x 0.05 for a Subdivision.
C30_StoredScoreFromDefaults ==
    \A id \in PropertyIds :
        LET p == properties[id]
            t == p.last_scored_at
            fresh == calculate_score(p, None, 30, FALSE, FALSE, <<t, t, t>>)
        IN  /\ t \in 0..wall_clock
            /\ p.score = fresh.total_score
            /\ p.tier = fresh.tier
            /\ p.score_breakdown = fresh.breakdown
            /\ p.score_breakdown[8].weight = 50
            /\ p.score_breakdown[8].points = (IF p.property_type = "MDU" THEN 300 ELSE 200)

\* an MDU scored again while a contact of strength 5 is linked to it
C30_Witness ==
    /\ call.op = "recalculate_score"
    /\ call.args = 1
    /\ 1 \in links
    /\ properties[1].property_type = MDU
    /\ properties[1].last_scored_at = 1
    /\ properties[1].score_breakdown[8].points = 300
====
